---- MODULE Spec2Model ----
(***************************************************************************)
(* Model of outlierdetect.py: the two scoring models (MultinomialModel,    *)
(* SValueModel), the helpers _normalize_counts and _get_frequencies, and   *)
(* the driver _run_alg behind run_mma and run_sva.                         *)
(*                                                                         *)
(* Python floats are modelled as exact rationals <<n, d>> in lowest terms  *)
(* with d > 0.  A number that leaves the model is wrapped in a record      *)
(* [kind, n, d, df] so that NaN, None and the chi-square tail values of    *)
(* scipy (kept symbolic) share one shape with the rationals.               *)
(***************************************************************************)
EXTENDS Integers, Sequences, FiniteSets, TLC

VARIABLES
    data,         \* the table handed to run_mma / run_sva: a sequence of rows
    frequencies,  \* the caller's frequencies-by-unit dict handed to a model
    history       \* the calls made so far, each with what it returned or raised
                  \* and the helper calls made inside it

vars == <<data, frequencies, history>>

-----------------------------------------------------------------------------
(* Bounds of the model. *)

\* Largest count in a frequency table drawn as a model input.
MaxCount == 2
\* Largest number of rows of a dataset.
MaxRows == 2
\* Largest target value val handed to _normalize_counts directly.
MaxVal == 2
\* Largest number of successive calls made on one frequencies dict.
MaxCalls == 2

\* Aggregation units ('interviewer' values), in Python's sorted order.
UnitOrder == <<"a", "b", "c", "d", "e">>
\* Category values, in Python's sorted order ('-' < 'n' < 'y').
ValOrder == <<"-", "n", "y">>

Range(s) == {s[i] : i \in DOMAIN s}
EmptyMap == [x \in {} |-> 0]

-----------------------------------------------------------------------------
(* Float arithmetic, as exact rationals. *)

Abs(x) == IF x < 0 THEN -x ELSE x

RECURSIVE GCD(_, _)
GCD(a, b) == IF b = 0 THEN a ELSE GCD(b, a % b)

\* n/d in lowest terms with a positive denominator (d # 0).
Rat(n, d) ==
    LET g == GCD(Abs(n), Abs(d))
        s == IF d < 0 THEN -1 ELSE 1
    IN  <<(s * n) \div g, (s * d) \div g>>

RInt(k) == <<k, 1>>
RAdd(p, q) == Rat(p[1] * q[2] + q[1] * p[2], p[2] * q[2])
RSub(p, q) == Rat(p[1] * q[2] - q[1] * p[2], p[2] * q[2])
RMul(p, q) == Rat(p[1] * q[1], p[2] * q[2])
RDiv(p, q) == Rat(p[1] * q[2], p[2] * q[1])
RAbs(p) == <<Abs(p[1]), p[2]>>
RLt(p, q) == p[1] * q[2] < q[1] * p[2]
RLe(p, q) == p[1] * q[2] <= q[1] * p[2]
RMax(p, q) == IF RLt(p, q) THEN q ELSE p

\* sum(d.values()) over integer counts.
RECURSIVE SumOver(_, _)
SumOver(f, S) ==
    IF S = {} THEN 0
    ELSE LET x == CHOOSE x \in S : TRUE IN f[x] + SumOver(f, S \ {x})

SumValues(f) == SumOver(f, DOMAIN f)

\* sum([...]) over floats.
RECURSIVE RSumOver(_, _)
RSumOver(f, S) ==
    IF S = {} THEN RInt(0)
    ELSE LET x == CHOOSE x \in S : TRUE IN RAdd(f[x], RSumOver(f, S \ {x}))

-----------------------------------------------------------------------------
(* Numbers as they appear in returned structures. *)

Num(r) == [kind |-> "num", n |-> r[1], d |-> r[2], df |-> 0]
NaN == [kind |-> "nan", n |-> 0, d |-> 1, df |-> 0]
None == [kind |-> "none", n |-> 0, d |-> 1, df |-> 0]
Zero == Num(RInt(0))
One == Num(RInt(1))

\* np.median of the values f[x], x in S: the middle value of the sorted list,
\* the mean of the two middle values when the list has even length, nan (with
\* a warning, no exception) when it is empty.  Kth is the k-th smallest.
Kth(f, S, k) ==
    CHOOSE v \in {f[x] : x \in S} :
        /\ Cardinality({x \in S : RLt(f[x], v)}) < k
        /\ k <= Cardinality({x \in S : RLe(f[x], v)})

\* The median of a non-empty list, as a rational.
MedianOf(f, S) ==
    LET n == Cardinality(S) IN
    IF n % 2 = 1 THEN Kth(f, S, (n + 1) \div 2)
    ELSE RDiv(RAdd(Kth(f, S, n \div 2), Kth(f, S, n \div 2 + 1)), RInt(2))

Median(f, S) == IF S = {} THEN NaN ELSE Num(MedianOf(f, S))

\* -stats.chi2.logsf(x2, df): scipy answers nan for df <= 0 (the shape
\* parameter must be positive); the survival function is 1 at 0, so the
\* result is 0 there; elsewhere it is a positive real, kept symbolic.
NegLogSf(x2, df) ==
    IF df <= 0 THEN NaN
    ELSE IF x2 = RInt(0) THEN Zero
    ELSE [kind |-> "neglogsf", n |-> x2[1], d |-> x2[2], df |-> df]

\* 1 - stats.chi2.cdf(x2, df): nan for df <= 0, 1 at 0, symbolic elsewhere.
OneMinusCdf(x2, df) ==
    IF df <= 0 THEN NaN
    ELSE IF x2 = RInt(0) THEN One
    ELSE [kind |-> "sf", n |-> x2[1], d |-> x2[2], df |-> df]

-----------------------------------------------------------------------------
(* _normalize_counts(counts, val) *)

\* The value raised or returned: ZeroDivisionError when the counts sum to 0.
NormalizeRaises(counts) == SumValues(counts) = 0

\* Faulty variant: divides by the number of keys, not by the sum of counts.
_normalize_counts_ByLen(counts, val) ==
    LET n == Cardinality(DOMAIN counts) IN
    [r \in DOMAIN counts |-> RDiv(RMul(RInt(val), RInt(counts[r])), RInt(n))]

_normalize_counts(counts, val) ==
    LET n == SumValues(counts) IN
    [r \in DOMAIN counts |-> RDiv(RMul(RInt(val), RInt(counts[r])), RInt(n))]

-----------------------------------------------------------------------------
(* What a model call hands back: the three returned dicts, or the exception  *)
(* raised, and the caller's frequencies dict as the call leaves it.          *)

Returned(scores, expected, p_values, freq) ==
    [outcome |-> "ok", scores |-> scores, expected |-> expected,
     p_values |-> p_values, frequencies |-> freq]

Raised(what, freq) ==
    [outcome |-> what, scores |-> EmptyMap, expected |-> EmptyMap,
     p_values |-> EmptyMap, frequencies |-> freq]

\* list(frequencies.keys())[0]: dicts are built unit by unit in sorted order.
FirstKey(freq) ==
    UnitOrder[CHOOSE i \in DOMAIN UnitOrder :
        /\ UnitOrder[i] \in DOMAIN freq
        /\ \A k \in 1..(i - 1) : UnitOrder[k] \notin DOMAIN freq]

\* rng = frequencies[list(frequencies.keys())[0]].keys()
Rng(freq) == DOMAIN freq[FirstKey(freq)]

-----------------------------------------------------------------------------
(* SValueModel *)

\* Faulty variant: accepts a single unit.
SvaTooFewUnits_Min1(freq) == Cardinality(DOMAIN freq) < 1

\* len(frequencies.keys()) < 2
SvaTooFewUnits(freq) == Cardinality(DOMAIN freq) < 2

\* The units the first loop deletes from the caller's dict: zero total.
SvaRemoved(freq) == {j \in DOMAIN freq : SumValues(freq[j]) = 0}

\* The caller's dict after the first loop (del frequencies[j]).
SvaFrequenciesAfter(freq) == [j \in DOMAIN freq \ SvaRemoved(freq) |-> freq[j]]

\* normalized_frequencies: one entry per unit that was not deleted.
SvaNormalized(freq) ==
    [j \in DOMAIN freq \ SvaRemoved(freq) |-> _normalize_counts(freq[j], 1)]

\* medians[r] = np.median([normalized_frequencies[j][r] for j in ...])
SvaMedians(freq) ==
    LET nf == SvaNormalized(freq) IN
    [r \in Rng(freq) |-> Median([j \in DOMAIN nf |-> nf[j][r]], DOMAIN nf)]

\* Faulty variant: forgets "outlier_values[j] = 0" for the deleted units.
SvaOutlierValues_KeptOnly(freq) ==
    LET nf == SvaNormalized(freq)
        med == SvaMedians(freq)
        rng == Rng(freq)
        dev(j) == [r \in rng |-> RAbs(RSub(nf[j][r], <<med[r].n, med[r].d>>))]
    IN  [j \in DOMAIN nf |-> RSumOver(dev(j), rng)]

\* outlier_values before _normalize: 0 for each deleted unit, the sum of
\* absolute deviations from the medians for each unit left in the dict.
SvaOutlierValues(freq) ==
    LET nf == SvaNormalized(freq)
        med == SvaMedians(freq)
        rng == Rng(freq)
        dev(j) == [r \in rng |-> RAbs(RSub(nf[j][r], <<med[r].n, med[r].d>>))]
    IN  [j \in DOMAIN freq |->
            IF j \in DOMAIN nf THEN RSumOver(dev(j), rng) ELSE RInt(0)]

\* p_values: None for each unit left in the dict.
SvaPValues(freq) == [j \in DOMAIN freq \ SvaRemoved(freq) |-> None]

\* The divisor of _normalize: the median of all values of value_dict, or
\* 1/n when the median is smaller, n = len(value_dict).
SvaDivisor(value_dict) ==
    LET m == Median(value_dict, DOMAIN value_dict)
        median == <<m.n, m.d>>
        n == Cardinality(DOMAIN value_dict)
    IN  IF RLt(median, Rat(1, n)) THEN Rat(1, n) ELSE median

_normalize(value_dict) ==
    LET divisor == SvaDivisor(value_dict) IN
    [i \in DOMAIN value_dict |-> Num(RDiv(value_dict[i], divisor))]

SValueModel_compute_outlier_scores(freq) ==
    IF SvaTooFewUnits(freq) THEN Raised("insufficient_units", freq)
    ELSE Returned(_normalize(SvaOutlierValues(freq)), SvaNormalized(freq),
                  SvaPValues(freq), SvaFrequenciesAfter(freq))

-----------------------------------------------------------------------------
(* MultinomialModel *)

\* _FLOAT_EQ_DELTA = 0.000001 = 1 / FloatEqDeltaInv
FloatEqDeltaInv == 1000000

MmaTooFewUnits(freq) == Cardinality(DOMAIN freq) < 2

_sum_frequencies(rng, freq) ==
    [r \in rng |-> SumOver([u \in DOMAIN freq |-> freq[u][r]], DOMAIN freq)]

\* Faulty variant: the unit's own counts are not subtracted from the pool.
MmaExpected_Pooled(freq, agg_unit) == _sum_frequencies(Rng(freq), freq)

\* expected_frequencies[agg_unit]: the pooled counts minus the unit's own.
MmaExpected(freq, agg_unit) ==
    LET summed_freq == _sum_frequencies(Rng(freq), freq) IN
    [r \in Rng(freq) |-> summed_freq[r] - freq[agg_unit][r]]

\* Faulty variant: the branch tests the unit's own total, not its peers'.
MmaPeerTotalZero_OwnTotal(freq, agg_unit) == SumValues(freq[agg_unit]) = 0

\* The branch taken at "if sum(expected_frequencies[agg_unit].values()) == 0".
MmaPeerTotalZero(freq, agg_unit) == SumValues(MmaExpected(freq, agg_unit)) = 0

\* The two consistency checks of _compute_x2_statistic.
X2Raises(expected, actual) ==
    \/ DOMAIN actual # DOMAIN expected
    \/ LET num_observations == SumValues(actual)
           diff == RAbs(RSub(RInt(num_observations),
                             RSumOver(expected, DOMAIN expected)))
       IN  RLt(Rat(1, FloatEqDeltaInv), diff)

\* chi_squared_stat: sum of (actual - expected)^2 / max(expected, 1.0).
ChiSquaredStat(expected, actual) ==
    LET term == [r \in DOMAIN expected |->
                    LET d == RSub(RInt(actual[r]), expected[r]) IN
                    RDiv(RMul(d, d), RMax(expected[r], RInt(1)))]
    IN  RSumOver(term, DOMAIN expected)

_compute_x2_statistic(expected, actual) ==
    LET x2 == ChiSquaredStat(expected, actual) IN
    [chi_squared_stat |-> x2,
     p_value |-> OneMinusCdf(x2, Cardinality(DOMAIN expected))]

\* Faulty variant: val is left at its default 1, not set to the unit's total.
MmaExpectedCounts_DefaultVal(freq, agg_unit) ==
    _normalize_counts(MmaExpected(freq, agg_unit), 1)

\* expected_counts of the else branch.
MmaExpectedCounts(freq, agg_unit) ==
    _normalize_counts(MmaExpected(freq, agg_unit), SumValues(freq[agg_unit]))

\* The else branch raises for a unit: ZeroDivisionError out of
\* _normalize_counts, or an Exception out of _compute_x2_statistic.
MmaUnitRaises(freq, agg_unit) ==
    /\ ~MmaPeerTotalZero(freq, agg_unit)
    /\ \/ NormalizeRaises(MmaExpected(freq, agg_unit))
       \/ X2Raises(MmaExpectedCounts(freq, agg_unit), freq[agg_unit])

\* The position of a unit in the order the loops visit the dict's keys.
UnitIndex(u) == CHOOSE i \in DOMAIN UnitOrder : UnitOrder[i] = u

\* The units the loop "for agg_unit in list(frequencies.keys())" gets to: all
\* of them up to and including the first one that raises.
MmaReached(freq) ==
    {u \in DOMAIN freq :
        \A w \in DOMAIN freq :
            UnitIndex(w) < UnitIndex(u) => ~MmaUnitRaises(freq, w)}

\* What the call raises when some unit raises: the first such unit's exception.
MmaException(freq) ==
    LET u == CHOOSE u \in MmaReached(freq) : MmaUnitRaises(freq, u) IN
    IF NormalizeRaises(MmaExpected(freq, u)) THEN "zero_division"
    ELSE "range_mismatch"

\* The calls of _normalize_counts one call of the model makes: for each unit
\* it is called for, the counts and the val it is handed.
MmaNormalizeCalls(freq) ==
    IF MmaTooFewUnits(freq) THEN EmptyMap
    ELSE [u \in {u \in MmaReached(freq) : ~MmaPeerTotalZero(freq, u)} |->
             [counts |-> MmaExpected(freq, u), val |-> SumValues(freq[u])]]

\* The calls of _compute_x2_statistic one call of the model makes: for each
\* unit it is called for, the expected and the actual table it is handed.
MmaX2Calls(freq) ==
    LET normalized == MmaNormalizeCalls(freq) IN
    [u \in {u \in DOMAIN normalized : ~NormalizeRaises(normalized[u].counts)} |->
        [expected |-> MmaExpectedCounts(freq, u), actual |-> freq[u]]]

MmaScore(freq, agg_unit) ==
    IF MmaPeerTotalZero(freq, agg_unit) THEN Zero
    ELSE NegLogSf(_compute_x2_statistic(MmaExpectedCounts(freq, agg_unit),
                                        freq[agg_unit]).chi_squared_stat,
                  Cardinality(Rng(freq)) - 1)

MmaPValue(freq, agg_unit) ==
    IF MmaPeerTotalZero(freq, agg_unit) THEN One
    ELSE _compute_x2_statistic(MmaExpectedCounts(freq, agg_unit),
                               freq[agg_unit]).p_value

MultinomialModel_compute_outlier_scores(freq) ==
    IF MmaTooFewUnits(freq) THEN Raised("insufficient_units", freq)
    ELSE IF \E u \in DOMAIN freq : MmaUnitRaises(freq, u)
         THEN Raised(MmaException(freq), freq)
    ELSE Returned([u \in DOMAIN freq |-> MmaScore(freq, u)],
                  [u \in DOMAIN freq |-> MmaExpected(freq, u)],
                  [u \in DOMAIN freq |-> MmaPValue(freq, u)],
                  freq)

\* The calls of _normalize_counts one call of SValueModel makes: one per unit
\* with non-zero total, with the default val = 1.
SvaNormalizeCalls(freq) ==
    IF SvaTooFewUnits(freq) THEN EmptyMap
    ELSE [j \in DOMAIN freq \ SvaRemoved(freq) |->
             [counts |-> freq[j], val |-> 1]]

\* The helper calls made inside model.compute_outlier_scores(frequencies).
HelperCalls(model, freq) ==
    IF model = "mma"
    THEN [normalize |-> MmaNormalizeCalls(freq), x2 |-> MmaX2Calls(freq)]
    ELSE [normalize |-> SvaNormalizeCalls(freq), x2 |-> EmptyMap]

\* model.compute_outlier_scores(frequencies), for either model.
compute_outlier_scores(model, freq) ==
    IF model = "mma" THEN MultinomialModel_compute_outlier_scores(freq)
    ELSE SValueModel_compute_outlier_scores(freq)

-----------------------------------------------------------------------------
(* _get_frequencies and _run_alg *)

AggCol == "interviewer"
CatCols == {"q1", "q2"}

\* data[col]
Column(d, col) == [i \in DOMAIN d |-> d[i][col]]

\* sorted(set(xs), key=lambda x: (str(type(x)), x)), all values being strings.
SortedDistinct(order, S) == SelectSeq(order, LAMBDA x : x \in S)

\* agg_units = sorted(set(data[agg_col]), ...)
AggUnits(d) == SortedDistinct(UnitOrder, Range(Column(d, AggCol)))

\* agg_to_data: the rows of each aggregation unit, in table order.
AggToData(d) ==
    [u \in Range(AggUnits(d)) |-> SelectSeq(d, LAMBDA row : row[AggCol] = u)]

\* Faulty variant: the null responses are not removed.
ColVals_KeepNulls(d, col, null_responses) ==
    SortedDistinct(ValOrder, Range(Column(d, col)))

\* col_vals: the sorted distinct values of the column, null responses removed.
ColVals(d, col, null_responses) ==
    SelectSeq(SortedDistinct(ValOrder, Range(Column(d, col))),
              LAMBDA c : c \notin Range(null_responses))

\* Faulty variant: the loop stops one row early.
RECURSIVE CountLoop_SkipLast(_, _, _)
CountLoop_SkipLast(interesting_data, i, freq) ==
    IF i >= Len(interesting_data) THEN freq
    ELSE LET name == interesting_data[i] IN
         IF name \in DOMAIN freq
         THEN CountLoop_SkipLast(interesting_data, i + 1,
                                 [freq EXCEPT ![name] = @ + 1])
         ELSE CountLoop_SkipLast(interesting_data, i + 1, freq)

\* The counting loop of _get_frequencies over interesting_data, from row i on.
RECURSIVE CountLoop(_, _, _)
CountLoop(interesting_data, i, freq) ==
    IF i > Len(interesting_data) THEN freq
    ELSE LET name == interesting_data[i] IN
         IF name \in DOMAIN freq
         THEN CountLoop(interesting_data, i + 1, [freq EXCEPT ![name] = @ + 1])
         ELSE CountLoop(interesting_data, i + 1, freq)

\* agg_to_data[agg_unit] raises KeyError for a unit the partition lacks.
GetFrequenciesRaises(agg_unit, agg_to_data) == agg_unit \notin DOMAIN agg_to_data

\* interesting_data = agg_to_data[agg_unit][col]
InterestingData(col, agg_unit, agg_to_data) == Column(agg_to_data[agg_unit], col)

\* The frequencies dict _get_frequencies returns (its first result).
_get_frequencies(col, col_vals, agg_unit, agg_to_data) ==
    CountLoop(InterestingData(col, agg_unit, agg_to_data), 1,
              [col_val \in Range(col_vals) |-> 0])

\* The frequencies dict _run_alg builds for one column, before the model runs.
FrequenciesForCol(d, col, null_responses) ==
    [agg_unit \in Range(AggUnits(d)) |->
        _get_frequencies(col, ColVals(d, col, null_responses), agg_unit,
                         AggToData(d))]

\* The record stored at outlier_scores[agg_unit][col]; frequencies is the
\* dict as the model left it.
ResultRecord(m, agg_unit) ==
    [score |-> m.scores[agg_unit],
     observed_freq |-> m.frequencies[agg_unit],
     expected_freq |-> m.expected[agg_unit],
     p_value |-> m.p_values[agg_unit]]

\* Building that record looks the unit up in the four dicts: KeyError when
\* one of them lacks it.
ResultRecordRaises(m, agg_unit) ==
    \/ agg_unit \notin DOMAIN m.scores
    \/ agg_unit \notin DOMAIN m.frequencies
    \/ agg_unit \notin DOMAIN m.expected
    \/ agg_unit \notin DOMAIN m.p_values

\* outlier_scores after the units of one column are merged in.
MergeColumn(acc, units, col, m) ==
    [u \in DOMAIN acc \cup units |->
        (col :> ResultRecord(m, u)) @@
        (IF u \in DOMAIN acc THEN acc[u] ELSE EmptyMap)]

\* The loop "for col in cat_cols" from column i on; acc is outlier_scores.
RECURSIVE RunCols(_, _, _, _, _, _)
RunCols(d, cat_cols, i, model, null_responses, acc) ==
    IF i > Len(cat_cols) THEN [outcome |-> "ok", result |-> acc]
    ELSE LET col == cat_cols[i]
             units == Range(AggUnits(d))
             m == compute_outlier_scores(model,
                      FrequenciesForCol(d, col, null_responses))
         IN  IF m.outcome # "ok"
             THEN [outcome |-> m.outcome, result |-> EmptyMap]
             ELSE IF \E u \in units : ResultRecordRaises(m, u)
             THEN [outcome |-> "key_error", result |-> EmptyMap]
             ELSE RunCols(d, cat_cols, i + 1, model, null_responses,
                          MergeColumn(acc, units, col, m))

\* agg_col_to_data, the second result: each unit's column values, as read.
AggColToData(d, cat_cols) ==
    [agg_unit \in Range(AggUnits(d)) |->
        [col \in Range(cat_cols) |-> InterestingData(col, agg_unit, AggToData(d))]]

\* The columns the loop "for col in cat_cols" gets to: every column before
\* them was processed without an exception.
ColsReached(d, cat_cols, model, null_responses) ==
    {cat_cols[i] : i \in {i \in DOMAIN cat_cols :
        RunCols(d, SubSeq(cat_cols, 1, i - 1), 1, model, null_responses,
                EmptyMap).outcome = "ok"}}

\* The helper calls made inside the model, for each column _run_alg gets to.
RunHelperCalls(d, cat_cols, model, null_responses) ==
    [col \in ColsReached(d, cat_cols, model, null_responses) |->
        HelperCalls(model, FrequenciesForCol(d, col, null_responses))]

_run_alg(d, cat_cols, model, null_responses) ==
    LET r == RunCols(d, cat_cols, 1, model, null_responses, EmptyMap) IN
    [outcome |-> r.outcome, result |-> r.result,
     agg_col_to_data |-> IF r.outcome = "ok" THEN AggColToData(d, cat_cols)
                         ELSE EmptyMap]

-----------------------------------------------------------------------------
(* The state machine. *)

NoCall ==
    [fn |-> "none", freq |-> EmptyMap, unit |-> "", val |-> 0,
     cols |-> <<>>, nulls |-> <<>>, col |-> "", col_vals |-> <<>>]

NoRet ==
    [outcome |-> "none", scores |-> EmptyMap, expected |-> EmptyMap,
     p_values |-> EmptyMap, table |-> EmptyMap, result |-> EmptyMap,
     agg_col_to_data |-> EmptyMap]

\* Inputs of the tables handed to run_mma / run_sva.
DataUnits == {"a", "b"}
Vals == Range(ValOrder)
Rows == [interviewer : DataUnits, q1 : Vals, q2 : {"-", "y"}]
Datasets == UNION {[1..n -> Rows] : n \in 0..MaxRows}
ColLists == {<<>>, <<"q1">>, <<"q2">>, <<"q1", "q2">>, <<"q2", "q1">>}
NullLists == {<<>>, <<"-">>}
ColValLists == {SortedDistinct(ValOrder, S) : S \in SUBSET Vals}

\* Inputs of the frequencies dicts handed to a model directly.
ModelUnits == {"a", "b", "c"}
KeySets == {{}, {"y"}, {"n", "y"}}
FreqInputs ==
    UNION {[U -> [R -> 0..MaxCount]] :
              U \in (SUBSET ModelUnits) \ {{}}, R \in KeySets}

\* The frequencies of TestSValueModel.test_compute_outlier_scores.
TestTable(y, n, dash) == ("y" :> y) @@ ("n" :> n) @@ ("-" :> dash)

TestSvaFrequencies ==
    [j \in {"a", "b", "c", "d", "e"} |->
        CASE j = "a" -> TestTable(8, 1, 1)
          [] j = "b" -> TestTable(14, 4, 2)
          [] j = "c" -> TestTable(1, 0, 1)
          [] j = "d" -> TestTable(9, 1, 0)
          [] j = "e" -> TestTable(18, 12, 0)]

\* The last call, what it returned, and the number of calls so far.
calls == Len(history)
call == IF history = <<>> THEN NoCall ELSE history[Len(history)].call
ret == IF history = <<>> THEN NoRet ELSE history[Len(history)].ret
\* The helper calls made inside the last call.
inner == IF history = <<>> THEN EmptyMap ELSE history[Len(history)].inner

(* Driver specification: one table, one call of run_mma, run_sva or        *)
(* _get_frequencies on it.  The table is never written, so a second call   *)
(* would start from the same state.                                        *)

Init ==
    /\ data \in Datasets
    /\ frequencies = EmptyMap
    /\ history = <<>>

Run(fn, model, cat_cols, null_responses) ==
    /\ history = <<>>
    /\ LET r == _run_alg(data, cat_cols, model, null_responses) IN
       history' = Append(history,
           [call |-> [NoCall EXCEPT !.fn = fn, !.cols = cat_cols,
                                    !.nulls = null_responses],
            ret |-> [NoRet EXCEPT !.outcome = r.outcome, !.result = r.result,
                                  !.agg_col_to_data = r.agg_col_to_data],
            inner |-> RunHelperCalls(data, cat_cols, model, null_responses)])
    /\ UNCHANGED <<data, frequencies>>

run_mma ==
    \E cat_cols \in ColLists, null_responses \in NullLists :
        Run("run_mma", "mma", cat_cols, null_responses)

run_sva ==
    \E cat_cols \in ColLists, null_responses \in NullLists :
        Run("run_sva", "sva", cat_cols, null_responses)

GetFrequencies ==
    \E col \in CatCols, col_vals \in ColValLists, agg_unit \in DataUnits :
        /\ history = <<>>
        /\ history' = Append(history,
               [call |-> [NoCall EXCEPT !.fn = "_get_frequencies", !.col = col,
                              !.col_vals = col_vals, !.unit = agg_unit],
                ret |-> IF GetFrequenciesRaises(agg_unit, AggToData(data))
                        THEN [NoRet EXCEPT !.outcome = "key_error"]
                        ELSE [NoRet EXCEPT !.outcome = "ok",
                                  !.table = _get_frequencies(col, col_vals,
                                               agg_unit, AggToData(data))],
                inner |-> EmptyMap])
        /\ UNCHANGED <<data, frequencies>>

Next == run_mma \/ run_sva \/ GetFrequencies

Spec == Init /\ [][Next]_vars

(* Model specification: one frequencies dict held by the caller, handed to *)
(* one model in successive calls, or to _normalize_counts once.            *)

InitModel ==
    /\ data = <<>>
    /\ frequencies \in FreqInputs \cup {TestSvaFrequencies}
    /\ history = <<>>

CallModel(model) ==
    /\ calls < MaxCalls
    /\ call.fn \in {"none", model}
    /\ LET r == compute_outlier_scores(model, frequencies) IN
       /\ history' = Append(history,
              [call |-> [NoCall EXCEPT !.fn = model, !.freq = frequencies],
               ret |-> [NoRet EXCEPT !.outcome = r.outcome,
                            !.scores = r.scores, !.expected = r.expected,
                            !.p_values = r.p_values],
               inner |-> HelperCalls(model, frequencies)])
       /\ frequencies' = r.frequencies
    /\ UNCHANGED data

CallMMA == CallModel("mma")

CallSVA == CallModel("sva")

CallNormalizeCounts ==
    \E unit \in DOMAIN frequencies, val \in 0..MaxVal :
        /\ history = <<>>
        /\ history' = Append(history,
               [call |-> [NoCall EXCEPT !.fn = "_normalize_counts",
                              !.freq = frequencies, !.unit = unit, !.val = val],
                ret |-> IF NormalizeRaises(frequencies[unit])
                        THEN [NoRet EXCEPT !.outcome = "zero_division"]
                        ELSE [NoRet EXCEPT !.outcome = "ok",
                                  !.table = _normalize_counts(frequencies[unit],
                                                              val)],
                inner |-> EmptyMap])
        /\ UNCHANGED <<data, frequencies>>

NextModel == CallMMA \/ CallSVA \/ CallNormalizeCounts

SpecModel == InitModel /\ [][NextModel]_vars

-----------------------------------------------------------------------------
(* Properties.  The driver properties are read under Spec, the model and   *)
(* helper properties under SpecModel.                                      *)

IsRun == call.fn \in {"run_mma", "run_sva"}
IsModelCall == call.fn \in {"mma", "sva"}

\* The aggregation units of a table, and the rows of a unit whose value in a
\* column is not a null response, both read off the table itself.
UnitsIn(d) == {d[i][AggCol] : i \in DOMAIN d}
NonNullRows(d, u, col, null_responses) ==
    {i \in DOMAIN d : d[i][AggCol] = u /\ d[i][col] \notin Range(null_responses)}
ZeroUnits(freq) == {u \in DOMAIN freq : \A r \in DOMAIN freq[u] : freq[u][r] = 0}

\* C1: run_sva / run_mma over a table with at least 2 units: a unit whose rows
\* all carry null responses in a requested column still gets a result entry
\* for that column, with score 0, and the call does not fail.
C1_NullOnlyUnitScoredZero ==
    (IsRun /\ Cardinality(UnitsIn(data)) >= 2) =>
        \A u \in UnitsIn(data), col \in Range(call.cols) :
            NonNullRows(data, u, col, call.nulls) = {} =>
                /\ ret.outcome = "ok"
                /\ u \in DOMAIN ret.result
                /\ col \in DOMAIN ret.result[u]
                /\ ret.result[u][col].score = Zero

\* C2: for an input with at least 2 units, the score map either model returns
\* has exactly the input's units as keys.
C2_ScoreEntryPerUnit ==
    (IsModelCall /\ Cardinality(DOMAIN call.freq) >= 2) =>
        /\ ret.outcome = "ok"
        /\ DOMAIN ret.scores = DOMAIN call.freq

\* An SVA call over three units, one of them all zero, has returned.
C2_Witness ==
    /\ call.fn = "sva"
    /\ Cardinality(DOMAIN call.freq) = 3
    /\ Cardinality(ZeroUnits(call.freq)) = 1
    /\ Rng(call.freq) # {}
    /\ DOMAIN ret.scores = DOMAIN call.freq

\* C3: two successive calls of one model on the same frequencies dict (at
\* least 2 units to begin with) return the same output: same outcome, scores,
\* expected tables and p-values.
C3_SecondCallSameOutput ==
    \A i \in 2..Len(history) :
        ( /\ history[i].call.fn \in {"mma", "sva"}
          /\ history[i - 1].call.fn = history[i].call.fn
          /\ Cardinality(DOMAIN history[1].call.freq) >= 2 )
        => history[i].ret = history[i - 1].ret

\* C4 as stated: with exactly one aggregation unit, run_mma / run_sva end with
\* the insufficient-units error whatever list of columns is passed.
C4_OneUnitAlwaysRaises ==
    (IsRun /\ Cardinality(UnitsIn(data)) = 1) =>
        /\ ret.outcome = "insufficient_units"
        /\ ret.result = EmptyMap

\* C4 amended: with exactly one aggregation unit and a non-empty list of
\* columns, run_mma / run_sva end with the insufficient-units error and
\* return no result map.
C4_OneUnitRaisesForSomeColumn ==
    (IsRun /\ Cardinality(UnitsIn(data)) = 1 /\ call.cols # <<>>) =>
        /\ ret.outcome = "insufficient_units"
        /\ ret.result = EmptyMap

\* run_sva over a one-unit table with two columns has raised.
C4_Witness ==
    /\ call.fn = "run_sva"
    /\ Cardinality(UnitsIn(data)) = 1
    /\ Len(call.cols) = 2
    /\ ret.outcome = "insufficient_units"

\* C5: in a returned result map no null response is a key of an observed or
\* expected table, and each observed table sums to the number of the unit's
\* rows whose value in that column is not a null response.
C5_NullsNeverCounted ==
    (IsRun /\ ret.outcome = "ok") =>
        \A u \in DOMAIN ret.result :
            \A col \in DOMAIN ret.result[u] :
                LET rec == ret.result[u][col] IN
                /\ Range(call.nulls) \cap DOMAIN rec.observed_freq = {}
                /\ Range(call.nulls) \cap DOMAIN rec.expected_freq = {}
                /\ SumValues(rec.observed_freq) =
                       Cardinality(NonNullRows(data, u, col, call.nulls))

\* A run with a null list has returned: one unit's only row in a requested
\* column is a null response and counts for nothing, another unit's row counts.
C5_Witness ==
    /\ IsRun
    /\ ret.outcome = "ok"
    /\ call.nulls # <<>>
    /\ \E u \in DOMAIN ret.result :
           \E col \in DOMAIN ret.result[u] :
               /\ \E i \in DOMAIN data :
                      data[i][AggCol] = u /\ data[i][col] \in Range(call.nulls)
               /\ SumValues(ret.result[u][col].observed_freq) = 0
               /\ \E w \in DOMAIN ret.result :
                      SumValues(ret.result[w][col].observed_freq) = 1

\* C6: over a table with at least 2 units, the score stored at result[u][c]
\* is the score the model computes for u on the frequencies-by-unit map of c.
C6_DriverScoreIsModelScore ==
    (IsRun /\ Cardinality(UnitsIn(data)) >= 2) =>
        /\ ret.outcome = "ok"
        /\ \A u \in UnitsIn(data), col \in Range(call.cols) :
               /\ u \in DOMAIN ret.result
               /\ col \in DOMAIN ret.result[u]
               /\ ret.result[u][col].score =
                      compute_outlier_scores(
                          IF call.fn = "run_mma" THEN "mma" ELSE "sva",
                          [x \in UnitsIn(data) |->
                              [v \in Range(ColVals(data, col, call.nulls)) |->
                                  Cardinality({i \in DOMAIN data :
                                      data[i][AggCol] = x /\ data[i][col] = v})]]
                      ).scores[u]

\* C7: for an input with at least 2 units, every unit whose table is all zero
\* gets score 0 from either model.
C7_ZeroUnitScoresZero ==
    (IsModelCall /\ Cardinality(DOMAIN call.freq) >= 2) =>
        \A u \in ZeroUnits(call.freq) :
            /\ ret.outcome = "ok"
            /\ u \in DOMAIN ret.scores
            /\ ret.scores[u] = Zero

\* C8: _get_frequencies, for a unit of the partition, returns a table keyed by
\* exactly col_vals whose count for v is the number of the unit's rows with
\* value v in the column; other rows are skipped and nothing is raised.
C8_GetFrequenciesCounts ==
    (call.fn = "_get_frequencies" /\ call.unit \in UnitsIn(data)) =>
        /\ ret.outcome = "ok"
        /\ DOMAIN ret.table = Range(call.col_vals)
        /\ \A v \in Range(call.col_vals) :
               ret.table[v] = Cardinality({i \in DOMAIN data :
                   data[i][AggCol] = call.unit /\ data[i][call.col] = v})

\* _get_frequencies has counted one row of a unit and skipped another.
C8_Witness ==
    /\ call.fn = "_get_frequencies"
    /\ ret.outcome = "ok"
    /\ \E v \in DOMAIN ret.table : ret.table[v] = 1
    /\ \E i \in DOMAIN data :
           /\ data[i][AggCol] = call.unit
           /\ data[i][call.col] \notin Range(call.col_vals)

\* The score C9 states for a unit with non-zero total: raw(u) / max(M, 1/n),
\* the medians, M and n being taken over the units with non-zero total only.
C9_Included(freq) == {u \in DOMAIN freq : SumValues(freq[u]) # 0}

C9_Raw(freq, u) ==
    LET inc == C9_Included(freq)
        prop(j) == [r \in DOMAIN freq[j] |-> Rat(freq[j][r], SumValues(freq[j]))]
        dev == [r \in DOMAIN freq[u] |->
                   RAbs(RSub(prop(u)[r],
                             MedianOf([j \in inc |-> prop(j)[r]], inc)))]
    IN  RSumOver(dev, DOMAIN freq[u])

C9_Score(freq, u) ==
    LET inc == C9_Included(freq)
        raw == [j \in inc |-> C9_Raw(freq, j)]
    IN  RDiv(raw[u], RMax(MedianOf(raw, inc), Rat(1, Cardinality(inc))))

\* C9: SValueModel gives every unit with non-zero total the score
\* raw(u) / max(M, 1/n) with M and n taken over the included units only; the
\* five-unit case a..e yields 1/3, 1/3, 7/3, 1, 5/3.
C9_SvaScoreFormula ==
    (call.fn = "sva" /\ Cardinality(DOMAIN call.freq) >= 2) =>
        /\ ret.outcome = "ok"
        /\ \A u \in C9_Included(call.freq) :
               ret.scores[u] = Num(C9_Score(call.freq, u))
        /\ call.freq = TestSvaFrequencies =>
               ret.scores = [j \in {"a", "b", "c", "d", "e"} |->
                   CASE j = "a" -> Num(Rat(1, 3))
                     [] j = "b" -> Num(Rat(1, 3))
                     [] j = "c" -> Num(Rat(7, 3))
                     [] j = "d" -> Num(Rat(1, 1))
                     [] j = "e" -> Num(Rat(5, 3))]

\* C10: _normalize_counts(counts, val), for counts with positive total, keeps
\* the key set, makes each entry val * counts[r] / total, and the entries sum
\* to val.
C10_NormalizeCountsSumsToVal ==
    (call.fn = "_normalize_counts" /\ SumValues(call.freq[call.unit]) > 0) =>
        LET counts == call.freq[call.unit]
            total == SumValues(counts)
        IN  /\ ret.outcome = "ok"
            /\ DOMAIN ret.table = DOMAIN counts
            /\ \A r \in DOMAIN counts :
                   ret.table[r] = Rat(call.val * counts[r], total)
            /\ RSumOver(ret.table, DOMAIN ret.table) = RInt(call.val)

\* _normalize_counts has rescaled a table with two non-zero counts to val = 2.
C10_Witness ==
    /\ call.fn = "_normalize_counts"
    /\ ret.outcome = "ok"
    /\ call.val = 2
    /\ Cardinality({r \in DOMAIN ret.table : ret.table[r] # RInt(0)}) >= 2

\* A returned number that is a real >= 0: a non-negative rational, or the
\* negated log of a chi-square tail probability at a positive statistic.
IsNonNegative(x) == (x.kind = "num" /\ x.n >= 0) \/ x.kind = "neglogsf"

\* C11: for an input with at least 2 units (all tables over one key set),
\* either model returns, and every score it returns is a number >= 0.
C11_ScoresNonNegative ==
    (IsModelCall /\ Cardinality(DOMAIN call.freq) >= 2) =>
        /\ ret.outcome = "ok"
        /\ \A u \in DOMAIN ret.scores : IsNonNegative(ret.scores[u])

\* C12: a call of either model leaves the caller's frequencies dict as it
\* was handed in: the same units, and for each unit the same keys and counts.
C12_CallerFrequenciesUnchanged ==
    IsModelCall =>
        /\ DOMAIN frequencies = DOMAIN call.freq
        /\ \A u \in DOMAIN call.freq :
               /\ DOMAIN frequencies[u] = DOMAIN call.freq[u]
               /\ \A r \in DOMAIN call.freq[u] :
                      frequencies[u][r] = call.freq[u][r]

\* C13: for an input with at least 2 units, the three maps SValueModel returns
\* (scores, normalized frequencies, p-values) each have exactly the input's
\* units as keys, units with zero total included, and every p-value is None.
C13_SvaMapsCoverEveryUnit ==
    (call.fn = "sva" /\ Cardinality(DOMAIN call.freq) >= 2) =>
        /\ ret.outcome = "ok"
        /\ DOMAIN ret.scores = DOMAIN call.freq
        /\ DOMAIN ret.expected = DOMAIN call.freq
        /\ DOMAIN ret.p_values = DOMAIN call.freq
        /\ \A u \in DOMAIN ret.p_values : ret.p_values[u] = None

\* The count of category r summed over the units other than u.
PeerCount(freq, u, r) ==
    LET peers == DOMAIN freq \ {u} IN
    SumOver([w \in peers |-> freq[w][r]], peers)

\* C14: for an input with at least 2 units, MultinomialModel returns for each
\* unit u an expected table over the shared key set whose entry for r is the
\* sum of the counts of r over the units other than u: a natural number, not
\* rescaled, and present also for a unit whose peers total zero.
C14_MmaExpectedIsPeerSum ==
    (call.fn = "mma" /\ Cardinality(DOMAIN call.freq) >= 2) =>
        /\ ret.outcome = "ok"
        /\ DOMAIN ret.expected = DOMAIN call.freq
        /\ \A u \in DOMAIN call.freq :
               /\ DOMAIN ret.expected[u] = DOMAIN call.freq[u]
               /\ \A r \in DOMAIN call.freq[u] :
                      /\ ret.expected[u][r] \in Nat
                      /\ ret.expected[u][r] = PeerCount(call.freq, u, r)

\* An MMA call over three units and two categories has returned: one unit's
\* peers total zero, and another unit's expected table holds that unit's counts.
C14_Witness ==
    /\ call.fn = "mma"
    /\ ret.outcome = "ok"
    /\ Cardinality(DOMAIN call.freq) = 3
    /\ Cardinality(Rng(call.freq)) = 2
    /\ \E u \in DOMAIN call.freq :
           /\ SumValues(ret.expected[u]) = 0
           /\ SumValues(call.freq[u]) > 0
    /\ \E w \in DOMAIN call.freq :
           \E r \in DOMAIN ret.expected[w] : ret.expected[w][r] = MaxCount

\* Every unit other than u has zero total, read off the input itself.
PeersTotalZero(freq, u) ==
    \A w \in DOMAIN freq \ {u} : \A r \in DOMAIN freq[w] : freq[w][r] = 0

\* C15: in a MultinomialModel call over at least 2 units, a unit gets score 0
\* and p-value 1 with neither _normalize_counts nor _compute_x2_statistic
\* called for it exactly when the other units' counts total zero; and
\* _normalize_counts is never handed counts that sum to zero.
C15_ZeroPeerTotalShortCut ==
    (call.fn = "mma" /\ Cardinality(DOMAIN call.freq) >= 2) =>
        /\ ret.outcome = "ok"
        /\ \A u \in DOMAIN call.freq :
               PeersTotalZero(call.freq, u) <=>
                   /\ u \notin DOMAIN inner.normalize
                   /\ u \notin DOMAIN inner.x2
                   /\ ret.scores[u] = Zero
                   /\ ret.p_values[u] = One
        /\ \A u \in DOMAIN inner.normalize :
               SumValues(inner.normalize[u].counts) # 0

\* An MMA call has returned in which one unit holds all the counts, so that
\* it takes the short cut, while the helpers were called for another unit.
C15_Witness ==
    /\ call.fn = "mma"
    /\ ret.outcome = "ok"
    /\ \E u \in DOMAIN call.freq :
           /\ PeersTotalZero(call.freq, u)
           /\ SumValues(call.freq[u]) > 0
           /\ u \notin DOMAIN inner.normalize
           /\ ret.scores[u] = Zero
    /\ \E w \in DOMAIN call.freq :
           w \in DOMAIN inner.normalize /\ w \in DOMAIN inner.x2

\* The result record a run holds for (u, col): none when the run raised.
RecordsOf(outcome, result, u, col) ==
    IF outcome = "ok" /\ u \in DOMAIN result /\ col \in DOMAIN result[u]
    THEN {result[u][col]}
    ELSE {}

\* C16: the record a run holds for (unit, c) does not depend on the rest of
\* the column list: a run of the same model over the same table with any other
\* list that contains c holds the same record for every unit.
C16_ColumnsScoredIndependently ==
    IsRun =>
        \A other \in ColLists :
            \A c \in Range(call.cols) \cap Range(other) :
                LET model == IF call.fn = "run_mma" THEN "mma" ELSE "sva"
                    r == _run_alg(data, other, model, call.nulls)
                IN  \A u \in UnitsIn(data) :
                        RecordsOf(ret.outcome, ret.result, u, c) =
                            RecordsOf(r.outcome, r.result, u, c)

\* C17: in a run_mma call over a table with at least 2 units neither check
\* of _compute_x2_statistic fires: every requested column is processed, and
\* for every unit the statistic is computed for, the actual table is the
\* unit's observed table, the expected counts have the same key set, and they
\* sum to the unit's observed total.
C17_X2CheckNeverFires ==
    (call.fn = "run_mma" /\ Cardinality(UnitsIn(data)) >= 2) =>
        /\ ret.outcome = "ok"
        /\ DOMAIN inner = Range(call.cols)
        /\ \A col \in DOMAIN inner :
               \A u \in DOMAIN inner[col].x2 :
                   LET x == inner[col].x2[u] IN
                   /\ x.actual = ret.result[u][col].observed_freq
                   /\ DOMAIN x.expected = DOMAIN x.actual
                   /\ RSumOver(x.expected, DOMAIN x.expected) =
                          RInt(Cardinality(NonNullRows(data, u, col, call.nulls)))

\* A run_mma call over two units has returned: in one column the statistic
\* was computed over two categories for a unit with a counted row, in another
\* for a unit whose only row is a null response.
C17_Witness ==
    /\ call.fn = "run_mma"
    /\ ret.outcome = "ok"
    /\ Cardinality(UnitsIn(data)) = 2
    /\ \E col \in DOMAIN inner :
           \E u \in DOMAIN inner[col].x2 :
               /\ Cardinality(DOMAIN inner[col].x2[u].actual) = 2
               /\ SumValues(inner[col].x2[u].actual) = 1
    /\ \E col \in DOMAIN inner :
           \E w \in DOMAIN inner[col].x2 :
               /\ NonNullRows(data, w, col, call.nulls) = {}
               /\ SumValues(inner[col].x2[w].actual) = 0

====
